---- MODULE Spec2Model ----
(***************************************************************************)
(* A model of UseCaseCreator.py: the line parser of                        *)
(* generate_use_case_diagram, the tree layout of calculate_tree_positions  *)
(* and the axis-limit step of the renderer.                                *)
(*                                                                         *)
(* Python strings are sequences of one-character strings, so that strip,   *)
(* split and the substring tests are computed, not assumed.                *)
(* Coordinates are kept in half units (1 = 0.5): every coordinate the      *)
(* program computes with its default width 2.5, height 1.0 and             *)
(* spacing_factor 2.0 is a multiple of 0.5, so the integers are exact.     *)
(***************************************************************************)
EXTENDS Integers, Sequences, FiniteSets, TLC

VARIABLES ascii_description, actor_position, pc, i, edges, nodes,
          actor_nodes, levels, grouped_nodes, pos, arrows, limits, error

vars == <<ascii_description, actor_position, pc, i, edges, nodes,
          actor_nodes, levels, grouped_nodes, pos, arrows, limits, error>>

(***************************************************************************)
(* Bounds of the model.                                                    *)
(***************************************************************************)
MaxLines == 2

MaxEdges == 3

(***************************************************************************)
(* Python str operations on sequences of characters.                       *)
(***************************************************************************)
NL == "\n"

ARROW == <<"-", ">">>

Range(s) == {s[k] : k \in 1..Len(s)}

IsSpace(c) == c \in {" ", NL}

RECURSIVE LStrip(_)
LStrip(s) == IF s = <<>> THEN s
             ELSE IF IsSpace(Head(s)) THEN LStrip(Tail(s)) ELSE s

RECURSIVE RStrip(_)
RStrip(s) == IF s = <<>> THEN s
             ELSE IF IsSpace(s[Len(s)]) THEN RStrip(SubSeq(s, 1, Len(s) - 1)) ELSE s

\* str.strip(): leading and trailing whitespace removed
Strip(s) == RStrip(LStrip(s))

\* the indices at which sub occurs in s
Occurrences(sub, s) ==
    {k \in 1..(Len(s) - Len(sub) + 1) : SubSeq(s, k, k + Len(sub) - 1) = sub}

\* `sub in s`
Contains(sub, s) == Occurrences(sub, s) # {}

Min(S) == CHOOSE x \in S : \A y \in S : x <= y

Max(S) == CHOOSE x \in S : \A y \in S : x >= y

\* str.split(sep): cut at every non-overlapping occurrence, left to right
RECURSIVE Split(_, _)
Split(s, sep) ==
    IF ~Contains(sep, s) THEN <<s>>
    ELSE LET k == Min(Occurrences(sep, s))
         IN  <<SubSeq(s, 1, k - 1)>> \o Split(SubSeq(s, k + Len(sep), Len(s)), sep)

\* code points of the characters the inputs are written in
Ord(c) == CASE c = NL  -> 10
            [] c = " " -> 32
            [] c = "-" -> 45
            [] c = "<" -> 60
            [] c = ">" -> 62
            [] c = "A" -> 65
            [] c = "B" -> 66
            [] c = "P" -> 80
            [] c = "Q" -> 81

\* s < t for Python strings
RECURSIVE StrLess(_, _)
StrLess(s, t) ==
    IF t = <<>> THEN FALSE
    ELSE IF s = <<>> THEN TRUE
    ELSE IF Head(s) # Head(t) THEN Ord(Head(s)) < Ord(Head(t))
    ELSE StrLess(Tail(s), Tail(t))

RECURSIVE Insert(_, _)
Insert(x, s) == IF s = <<>> THEN <<x>>
                ELSE IF StrLess(x, Head(s)) THEN <<x>> \o s
                ELSE <<Head(s)>> \o Insert(x, Tail(s))

\* sorted(list)
RECURSIVE Sorted(_)
Sorted(s) == IF s = <<>> THEN <<>> ELSE Insert(Head(s), Sorted(Tail(s)))

(***************************************************************************)
(* The inputs: texts of at most MaxLines lines.                            *)
(***************************************************************************)
ActorP == <<"<", "<", "P", ">", ">">>

ActorQ == <<"<", "<", "Q", ">", ">">>

UseA == <<"A">>

UseB == <<"B">>

SOLID == <<" ", "-", ">", " ">>

DASHED == <<" ", "-", "-", ">", " ">>

ParseNames == {ActorP, UseA, UseB}

BareLines == ParseNames \cup {<<>>, <<" ">>, <<" ", "B", " ">>}

EdgeLines == {s \o ar \o t : s \in ParseNames, ar \in {SOLID, DASHED}, t \in ParseNames}
             \cup {UseA \o ARROW \o UseB}

ChainLines == {UseA \o a1 \o UseB \o a2 \o ActorP : a1 \in {SOLID, DASHED}, a2 \in {SOLID, DASHED}}

InputLines == BareLines \cup EdgeLines \cup ChainLines

RECURSIVE Join(_)
Join(ls) == IF Len(ls) = 1 THEN ls[1] ELSE ls[1] \o <<NL>> \o Join(Tail(ls))

Texts == {Join(ls) : ls \in UNION {[1..n -> InputLines] : n \in 1..MaxLines}}

Modes == {"top-center", "center-left"}

(***************************************************************************)
(* generate_use_case_diagram: the parsing loop.                            *)
(***************************************************************************)
\* ascii_description.strip().split("\n")
Lines(text) == Split(Strip(text), <<NL>>)

\* map(str.strip, line.split("->"))
Parts(line) == [k \in 1..Len(Split(line, ARROW)) |-> Strip(Split(line, ARROW)[k])]

\* a parser that registers the source of an edge only
RegisterSourceOnly(ns, source, target) == ns \cup {source}

\* nodes.update([source, target])
Register(ns, source, target) == ns \cup {source, target}

Init == /\ ascii_description \in Texts
        /\ actor_position \in Modes
        /\ pc = "parse"
        /\ i = 1
        /\ edges = <<>>
        /\ nodes = {}
        /\ actor_nodes = <<>>
        /\ levels = <<>>
        /\ grouped_nodes = <<>>
        /\ pos = <<>>
        /\ arrows = <<>>
        /\ limits = <<>>
        /\ error = "none"

\* one iteration of `for line in ...`; the tuple unpacking of line 169 raises
\* ValueError unless the split has exactly two parts
ParseLine ==
    /\ pc = "parse"
    /\ LET line == Lines(ascii_description)[i]
           last == i = Len(Lines(ascii_description))
       IN  IF Contains(ARROW, line)
           THEN IF Len(Parts(line)) # 2
                THEN /\ pc' = "error"
                     /\ error' = "ValueError: unpack"
                     /\ UNCHANGED <<i, edges, nodes>>
                ELSE /\ edges' = Append(edges, <<Parts(line)[1], Parts(line)[2]>>)
                     /\ nodes' = Register(nodes, Parts(line)[1], Parts(line)[2])
                     /\ i' = i + 1
                     /\ pc' = IF last THEN "layout" ELSE "parse"
                     /\ UNCHANGED error
           ELSE /\ nodes' = nodes \cup {Strip(line)}
                /\ i' = i + 1
                /\ pc' = IF last THEN "layout" ELSE "parse"
                /\ UNCHANGED <<edges, error>>
    /\ UNCHANGED <<ascii_description, actor_position, actor_nodes, levels,
                   grouped_nodes, pos, arrows, limits>>

(***************************************************************************)
(* calculate_tree_positions.                                               *)
(***************************************************************************)
\* default parameters of calculate_tree_positions, in half units
width == 5

height == 2

spacing_factor == 2

x_spacing == width * spacing_factor

y_spacing == height * spacing_factor

\* "<<" in node and ">>" in node
IsActor(node) == Contains(<<"<", "<">>, node) /\ Contains(<<">", ">">>, node)

\* the orders in which list(nodes) can enumerate a set
RECURSIVE ListOrders(_)
ListOrders(S) == IF S = {} THEN {<<>>}
                 ELSE UNION {{<<x>> \o l : l \in ListOrders(S \ {x})} : x \in S}

\* list.index, 0-based as enumerate counts
IndexOf(s, x) == Min({k \in 1..Len(s) : s[k] = x}) - 1

\* the vertices of the DiGraph built by tree.add_edges_from(edges)
TreeNodes(es) == {es[k][1] : k \in 1..Len(es)} \cup {es[k][2] : k \in 1..Len(es)}

\* the keys of a sequence in first-seen order
RECURSIVE Fresh(_, _)
Fresh(cands, seen) ==
    IF cands = <<>> THEN <<>>
    ELSE IF Head(cands) \in seen THEN Fresh(Tail(cands), seen)
    ELSE <<Head(cands)>> \o Fresh(Tail(cands), seen \cup {Head(cands)})

\* the successors of v in the adjacency dict, in insertion order
Succ(es, v) ==
    LET out == SelectSeq(es, LAMBDA e : e[1] = v)
    IN  Fresh([k \in 1..Len(out) |-> out[k][2]], {})

RECURSIVE SuccAll(_, _)
SuccAll(es, vs) == IF vs = <<>> THEN <<>>
                   ELSE Succ(es, Head(vs)) \o SuccAll(es, Tail(vs))

\* breadth-first search from a frontier: <<node, hops>> in the order found
RECURSIVE BFS(_, _, _, _)
BFS(es, thislevel, seen, level) ==
    IF thislevel = <<>> THEN <<>>
    ELSE LET nextlevel == Fresh(SuccAll(es, thislevel), seen)
         IN  [k \in 1..Len(thislevel) |-> <<thislevel[k], level>>]
             \o BFS(es, nextlevel, seen \cup Range(nextlevel), level + 1)

\* a traversal that stops at the direct successors of the source
DirectSuccessorsOnly(es, source) ==
    <<<<source, 0>>>> \o [k \in 1..Len(Fresh(Succ(es, source), {source})) |->
                            <<Fresh(Succ(es, source), {source})[k], 1>>]

\* nx.single_source_shortest_path_length(tree, actor)
ShortestPathLength(es, source) == BFS(es, <<source>>, {source}, 0)

Keys(d) == {d[k][1] : k \in 1..Len(d)}

\* dict.update: a key already present keeps its place and takes the new value
RECURSIVE Update(_, _)
Update(d, new) ==
    IF new = <<>> THEN d
    ELSE LET e == Head(new)
             d1 == IF e[1] \in Keys(d)
                   THEN [k \in 1..Len(d) |-> IF d[k][1] = e[1] THEN e ELSE d[k]]
                   ELSE Append(d, e)
         IN  Update(d1, Tail(new))

\* for actor in actor_nodes: if actor in tree: levels.update(...)
RECURSIVE Levels(_, _, _)
Levels(es, actors, d) ==
    IF actors = <<>> THEN d
    ELSE Levels(es, Tail(actors),
                IF Head(actors) \in TreeNodes(es)
                THEN Update(d, ShortestPathLength(es, Head(actors)))
                ELSE d)

\* the position of the k-th (0-based) of n actors
ActorPos(mode, k, n) ==
    IF mode = "top-center"
    THEN <<k * x_spacing - ((n - 1) * x_spacing) \div 2, 0>>
    ELSE <<0, -k * y_spacing>>

\* for i, actor in enumerate(sorted(actor_nodes)): pos[actor] = ...
PlaceActors(mode, actors) ==
    [a \in Range(actors) |-> ActorPos(mode, IndexOf(Sorted(actors), a), Len(actors))]

\* a grouping that does not skip the nodes already in pos
UnplacedUnchecked(node, placed) == TRUE

\* if node not in pos
Unplaced(node, placed) == node \notin DOMAIN placed

\* grouped_nodes.setdefault(level, []).append(node), for the nodes not yet in pos
GroupNodes(d, placed) ==
    LET todo == SelectSeq(d, LAMBDA e : Unplaced(e[1], placed))
    IN  [lv \in {todo[k][2] : k \in 1..Len(todo)} |->
            LET at == SelectSeq(todo, LAMBDA e : e[2] = lv)
            IN  [k \in 1..Len(at) |-> at[k][1]]]

\* a placement that forgets the index of the node within its level
LevelPosNoIndex(mode, level, k, n) ==
    IF mode = "top-center"
    THEN <<0 - ((n - 1) * x_spacing) \div 2, -level * y_spacing>>
    ELSE <<level * x_spacing, ((n - 1) * y_spacing) \div 2>>

\* the position of the k-th (0-based) of the n nodes of a level
LevelPos(mode, level, k, n) ==
    IF mode = "top-center"
    THEN <<k * x_spacing - ((n - 1) * x_spacing) \div 2, -level * y_spacing>>
    ELSE <<level * x_spacing, -k * y_spacing + ((n - 1) * y_spacing) \div 2>>

\* for level, level_nodes in grouped_nodes.items(): for i, node in enumerate(level_nodes)
PlaceLevels(mode, grouped) ==
    LET placedNodes == UNION {Range(grouped[lv]) : lv \in DOMAIN grouped}
        levelOf(n) == CHOOSE lv \in DOMAIN grouped : n \in Range(grouped[lv])
    IN  [n \in placedNodes |->
            LevelPos(mode, levelOf(n), IndexOf(grouped[levelOf(n)], n),
                     Len(grouped[levelOf(n)]))]

\* pos[node] = ... assigns into the dict that already holds the actors
Assign(placed, new) == new @@ placed

\* calculate_tree_positions, given the order in which the actors are met
TreePositions(mode, actors, es) ==
    LET placed == PlaceActors(mode, actors)
    IN  Assign(placed, PlaceLevels(mode, GroupNodes(Levels(es, actors, <<>>), placed)))

\* actor_nodes = [node for node in list(nodes) if "<<" in node and ">>" in node]:
\* the actors of the set, in the order list(nodes) happens to enumerate them;
\* filtering every order of the set gives every order of its actors
ActorOrders(ns) == ListOrders({n \in ns : IsActor(n)})

\* the call of line 176 and the whole of calculate_tree_positions
Layout ==
    /\ pc = "layout"
    /\ \E an \in ActorOrders(nodes) :
          /\ actor_nodes' = an
          /\ levels' = Levels(edges, an, <<>>)
          /\ grouped_nodes' = GroupNodes(Levels(edges, an, <<>>),
                                         PlaceActors(actor_position, an))
          /\ pos' = TreePositions(actor_position, an, edges)
    /\ pc' = "render"
    /\ UNCHANGED <<ascii_description, actor_position, i, edges, nodes, arrows,
                   limits, error>>

(***************************************************************************)
(* generate_use_case_diagram: arrows and axis limits.                      *)
(***************************************************************************)
ellipse_width == 5

\* if edge[0] in pos and edge[1] in pos
Drawn(es, placed) ==
    SelectSeq(es, LAMBDA e : e[1] \in DOMAIN placed /\ e[2] \in DOMAIN placed)

\* min(x_values) - ellipse_width, max(x_values) + ellipse_width, and the same for y
AxisLimits(placed) ==
    LET xs == {placed[n][1] : n \in DOMAIN placed}
        ys == {placed[n][2] : n \in DOMAIN placed}
    IN  <<Min(xs) - ellipse_width, Max(xs) + ellipse_width,
          Min(ys) - ellipse_width, Max(ys) + ellipse_width>>

\* lines 178-220; min() of an empty list raises ValueError
Render ==
    /\ pc = "render"
    /\ arrows' = Drawn(edges, pos)
    /\ IF DOMAIN pos = {}
       THEN /\ pc' = "error"
            /\ error' = "ValueError: min() arg is an empty sequence"
            /\ UNCHANGED limits
       ELSE /\ limits' = AxisLimits(pos)
            /\ pc' = "done"
            /\ UNCHANGED error
    /\ UNCHANGED <<ascii_description, actor_position, i, edges, nodes,
                   actor_nodes, levels, grouped_nodes, pos>>

Next == ParseLine \/ Layout \/ Render

Spec == Init /\ [][Next]_vars

(***************************************************************************)
(* calculate_tree_positions on its own: the graphs the parser can return   *)
(* (every edge endpoint is a node), at most MaxEdges edges.                *)
(***************************************************************************)
LayoutNames == {ActorP, ActorQ, UseA, UseB}

LayoutEdges == {e \in LayoutNames \X LayoutNames : e[1] # e[2]}

EdgeLists == UNION {[1..n -> LayoutEdges] : n \in 0..MaxEdges}

LayoutInit ==
    /\ ascii_description = <<>>
    /\ actor_position \in Modes
    /\ pc = "layout"
    /\ i = 0
    /\ edges \in EdgeLists
    /\ \E extra \in SUBSET (LayoutNames \ TreeNodes(edges)) :
          nodes = TreeNodes(edges) \cup extra
    /\ actor_nodes = <<>>
    /\ levels = <<>>
    /\ grouped_nodes = <<>>
    /\ pos = <<>>
    /\ arrows = <<>>
    /\ limits = <<>>
    /\ error = "none"

LayoutNext == Layout

LayoutSpec == LayoutInit /\ [][LayoutNext]_vars

(***************************************************************************)
(* Properties.                                                             *)
(***************************************************************************)
\* the parsing loop has run to its end
ParseDone == pc \in {"layout", "render", "done"} \/ (pc = "error" /\ error # "ValueError: unpack")

\* calculate_tree_positions has returned
LayoutDone == pc \in {"render", "done"}

\* the nodes within k hops of a along directed edges
RECURSIVE Ball(_, _, _)
Ball(es, a, k) ==
    IF k = 0 THEN {a}
    ELSE LET B == Ball(es, a, k - 1)
         IN  B \cup {e[2] : e \in {x \in Range(es) : x[1] \in B}}

Reaches(es, a, n) == n \in Ball(es, a, Len(es))

HopCount(es, a, n) == Min({k \in 0..Len(es) : n \in Ball(es, a, k)})

Actors == {n \in nodes : IsActor(n)}

\* the level a positioned node was placed at, read off its coordinate
PlacedLevel(n) == IF actor_position = "top-center"
                  THEN (-pos[n][2]) \div y_spacing
                  ELSE pos[n][1] \div x_spacing

\* C6: every edge of the edge list has its source and its target in the node
\* set, and both are whitespace-trimmed strings.
C6_Closure ==
    \A k \in 1..Len(edges) :
        /\ edges[k][1] \in nodes /\ edges[k][2] \in nodes
        /\ Strip(edges[k][1]) = edges[k][1] /\ Strip(edges[k][2]) = edges[k][2]

\* two edge lines, written with blanks around the markers, have been parsed
C6_Witness == ParseDone /\ Len(edges) = 2 /\ edges[1] # edges[2]

\* C1: a line `s --> t` yields the edge (s, t) and registers exactly s and t,
\* so no node keeps a trailing marker character; the two-line text
\* `<<P>> -> A` / `A --> B` yields exactly 3 nodes and 2 edges.
C1_MarkerPrecedence ==
    ParseDone =>
        /\ \A k \in 1..Len(Lines(ascii_description)) : \A s \in ParseNames, t \in ParseNames :
               Lines(ascii_description)[k] = s \o DASHED \o t => <<s, t>> \in Range(edges)
        /\ \A n \in nodes : n = <<>> \/ n[Len(n)] # "-"
        /\ ascii_description = ActorP \o SOLID \o UseA \o <<NL>> \o UseA \o DASHED \o UseB
               => Cardinality(nodes) = 3 /\ Len(edges) = 2

\* C5: a blank description is rejected as an EmptyGraph before layout: no node
\* is registered, the layout is not reached, and no later error is raised.
C5_EmptyGraph ==
    Strip(ascii_description) = <<>> =>
        /\ nodes = {}
        /\ pc \in {"parse", "error"}
        /\ pc = "error" => error = "EmptyGraph"

\* the line cut at the first marker, the dashed marker looked for first
FirstCut(line, marker) ==
    LET k == Min(Occurrences(marker, line))
    IN  <<Strip(SubSeq(line, 1, k - 1)), Strip(SubSeq(line, k + Len(marker), Len(line)))>>

FirstSplit(line) ==
    IF Contains(<<"-", "-", ">">>, line) THEN FirstCut(line, <<"-", "-", ">">>)
    ELSE FirstCut(line, ARROW)

\* C9: a line with two or more markers is split at the first one only, gives
\* one edge and two nodes, and parsing goes on without an error.
C9_FirstOccurrenceOnly ==
    /\ error # "ValueError: unpack"
    /\ \A k \in 1..(i - 1) :
           LET line == Lines(ascii_description)[k]
           IN  Cardinality(Occurrences(ARROW, line)) >= 2 =>
                   /\ FirstSplit(line) \in Range(edges)
                   /\ {FirstSplit(line)[1], FirstSplit(line)[2]} \subseteq nodes

\* C2: every positioned non-actor node is placed at the least hop count from
\* the actors that reach it.
C2_MinimalLevel ==
    LayoutDone =>
        \A n \in DOMAIN pos : ~IsActor(n) =>
            PlacedLevel(n) = Min({HopCount(edges, a, n) : a \in {b \in Actors : Reaches(edges, b, n)}})

\* C3: the position map is the same for every order in which list(nodes) can
\* enumerate the node set.
C3_Deterministic ==
    LayoutDone =>
        \A an \in ActorOrders(nodes) : TreePositions(actor_position, an, edges) = pos

\* C4: a node has a position if and only if it is an actor or is reachable
\* from an actor along directed edges.
C4_Coverage ==
    LayoutDone =>
        DOMAIN pos = {n \in nodes : IsActor(n) \/ \E a \in Actors : Reaches(edges, a, n)}

\* a non-actor node reached from an actor is positioned, and a non-actor node
\* that has an edge but is not reached from any actor is not
C4_Witness ==
    /\ LayoutDone
    /\ \E n \in DOMAIN pos : ~IsActor(n)
    /\ \E n \in TreeNodes(edges) : n \notin DOMAIN pos

\* the coordinate along which the levels grow, and the one across it
Primary(p) == IF actor_position = "top-center" THEN -p[2] ELSE p[1]

\* C7: actors lie on the actor axis (y = 0 in top-center, x = 0 in
\* center-left) and every positioned non-actor node lies strictly beyond it.
C7_Separation ==
    LayoutDone =>
        \A n \in DOMAIN pos : IF IsActor(n) THEN Primary(pos[n]) = 0 ELSE Primary(pos[n]) > 0

\* an actor is reached from another actor, and a non-actor node is positioned
C7_Witness ==
    /\ LayoutDone
    /\ \E a \in Actors, b \in Actors : a # b /\ Reaches(edges, a, b)
    /\ \E n \in DOMAIN pos : ~IsActor(n)

\* the coordinate across the levels, counted in the direction of the index
Across(p) == IF actor_position = "top-center" THEN p[1] ELSE -p[2]

AcrossStep == IF actor_position = "top-center" THEN x_spacing ELSE y_spacing

\* C8: two distinct nodes of one level have different coordinates, and
\* consecutive nodes of a level are one spacing step apart across the level.
C8_NoOverlap ==
    LayoutDone =>
        \A lv \in DOMAIN grouped_nodes :
            LET g == grouped_nodes[lv]
            IN  /\ \A j \in 1..Len(g), k \in 1..Len(g) : j # k => pos[g[j]] # pos[g[k]]
                /\ \A k \in 1..(Len(g) - 1) :
                       /\ Across(pos[g[k + 1]]) - Across(pos[g[k]]) = AcrossStep
                       /\ Primary(pos[g[k + 1]]) = Primary(pos[g[k]])

\* a level holds two nodes
C8_Witness == LayoutDone /\ \E lv \in DOMAIN grouped_nodes : Len(grouped_nodes[lv]) = 2

\* C10: in both modes the actors are centred at zero along the actor axis, and
\* the center-left layout is the top-center layout with the axes swapped.
C10_Mirror ==
    LayoutDone =>
        LET tc == TreePositions("top-center", actor_nodes, edges)
            cl == TreePositions("center-left", actor_nodes, edges)
        IN  /\ \A a \in Actors : \E b \in Actors : Across(pos[b]) = -Across(pos[a])
            /\ DOMAIN tc = DOMAIN cl
            /\ \A n \in DOMAIN tc :
                   /\ cl[n][1] * y_spacing = -tc[n][2] * x_spacing
                   /\ cl[n][2] * x_spacing = -tc[n][1] * y_spacing

====
